---- MODULE Spec2Model ----
(***************************************************************************)
(* Inverted-index builder (src/indexer.py), query engine                   *)
(* (src/searcher.py) and crawler (src/crawler.py).  Texts are sequences of *)
(* one-character strings, a token is a non-empty sequence of characters,   *)
(* the three index artifacts are files in one index directory, and the     *)
(* crawler keeps its frontier, visited set, retry counts and failed list   *)
(* in files between runs.                                                  *)
(***************************************************************************)
EXTENDS Integers, Sequences, FiniteSets, TLC

VARIABLES
    csv,          \* the extracted CSV: [exists, rows]
    invFile,      \* inverted_index.jsonl: [exists, lines]
    idfFile,      \* idf.jsonl: [exists, lines]
    metaFile,     \* meta.json: [state, obj], state "missing", "empty" (opened,
                  \* nothing written yet) or "written"
    bpc,          \* position of the build process
    cfg,          \* build arguments [min_doc_tokens, min_token_len]
    rows,         \* rows the build's reader has not yet yielded
    postings,     \* build accumulator: term -> (doc_id -> tf)
    termOrder,    \* insertion order of the keys of postings
    doclen,       \* build accumulator: doc_id -> token count
    meta,         \* build accumulator: doc_id -> display metadata
    seen_keys,    \* build accumulator: set of (url, text hash)
    bN,           \* build: N, once computed
    bavgdl,       \* build: avgdl, once computed, as the fraction [n, d]
    registered,   \* history: the records the loop registered, in order
    builds,       \* number of builds started
    published,    \* history: the artifact set of the last build that finished
    wrote,        \* history: the artifacts the running build has opened for writing
    spc,          \* position of the search process
    query,        \* search argument: the query text
    method,       \* search argument: "bm25" or "tfidf"
    topk,         \* search argument: the result limit
    inv_index,    \* search: loaded postings, term -> (doc_id -> tf)
    idf_table,    \* search: loaded term statistics
    smeta,        \* search: loaded N, avgdl, doclen, meta
    q_terms,      \* search: the tokens of the query
    cand_order,   \* search: the order in which the candidate set was iterated
    result,       \* search: the returned list of <<doc_id, score>>
    steps,        \* history: the stages the running search has gone through
    sSeen,        \* history: the finished artifact sets that existed while the
                  \* running search was checking and loading
    tk,           \* one call of tokenize: [pc, text, min_token_len, out]
    bm,           \* one term of bm25_score: [pc, tf, dl, avgdl, idf, divisor,
                  \* denom, score]
    queueFile,    \* to_visit_queue.txt: the saved frontier, in order
    visitedFile,  \* visited.txt: the saved set of visited URLs
    retryFile,    \* retry_counts.txt: url -> count
    failedFile,   \* failed.txt: the URLs given up, in order
    cpc,          \* position of the crawl_step run
    limit,        \* crawl_step argument
    count,        \* crawl_step: download attempts of this run
    to_visit_q,   \* crawl_step: the frontier
    to_visit_set, \* crawl_step: the helper set of the frontier
    visited,      \* crawl_step: the visited set
    retry_counts, \* crawl_step: url -> failed attempts
    cur_url,      \* crawl_step: the URL popped in this iteration
    fetched,      \* history: url -> number of downloads, over all runs
    settled,      \* history: the URLs a download of which ended ok, blocked
                  \* or skip-nonhtml
    saves,        \* history: how often the running crawl_step saved its state
    runs          \* number of crawl_step runs started

bvars == <<bpc, cfg, rows, postings, termOrder, doclen, meta, seen_keys,
           bN, bavgdl, registered, builds, published, wrote>>
files == <<invFile, idfFile, metaFile>>
svars == <<spc, query, method, topk, inv_index, idf_table, smeta, q_terms,
           cand_order, result, steps>>
cfiles == <<queueFile, visitedFile, retryFile, failedFile>>
cvars == <<cpc, limit, count, to_visit_q, to_visit_set, visited, retry_counts,
           cur_url, fetched, settled, saves, runs>>
aux == <<tk, bm, cfiles, cvars>>

----------------------------------------------------------------------------
(* Bounds *)
MaxRecords == 3
MaxBuilds == 2

----------------------------------------------------------------------------
(* Characters and the tokenizer *)

LowerLetters == {"a","b","c","d","e","f","g","h","i","j","k","l","m",
                 "n","o","p","q","r","s","t","u","v","w","x","y","z"}
Digits == {"0","1","2","3","4","5","6","7","8","9"}

\* the characters the substitution keeps: [a-z0-9%\./\-+ ]
KeptChars == LowerLetters \cup Digits \cup {"%", ".", "/", "-", "+", " "}

UpperToLower ==
    [c \in {"A","B","C","D","E","F","G","H","I","J","K","L","M",
            "N","O","P","Q","R","S","T","U","V","W","X","Y","Z"} |->
        CASE c = "A" -> "a" [] c = "B" -> "b" [] c = "C" -> "c" [] c = "D" -> "d"
          [] c = "E" -> "e" [] c = "F" -> "f" [] c = "G" -> "g" [] c = "H" -> "h"
          [] c = "I" -> "i" [] c = "J" -> "j" [] c = "K" -> "k" [] c = "L" -> "l"
          [] c = "M" -> "m" [] c = "N" -> "n" [] c = "O" -> "o" [] c = "P" -> "p"
          [] c = "Q" -> "q" [] c = "R" -> "r" [] c = "S" -> "s" [] c = "T" -> "t"
          [] c = "U" -> "u" [] c = "V" -> "v" [] c = "W" -> "w" [] c = "X" -> "x"
          [] c = "Y" -> "y" [] c = "Z" -> "z"]

\* str.lower() on the characters of the model
Lower(text) ==
    [i \in 1..Len(text) |->
        IF text[i] \in DOMAIN UpperToLower THEN UpperToLower[text[i]] ELSE text[i]]

\* re.sub(r"[^a-z0-9%\./\-+ ]+", " ", text): every maximal run of characters
\* outside KeptChars becomes one space
RECURSIVE SubOther(_, _)
SubOther(text, inRun) ==
    IF text = <<>> THEN <<>>
    ELSE IF Head(text) \in KeptChars
         THEN <<Head(text)>> \o SubOther(Tail(text), FALSE)
         ELSE IF inRun THEN SubOther(Tail(text), TRUE)
              ELSE <<" ">> \o SubOther(Tail(text), TRUE)

\* the characters \s matches
Whitespace == {" ", "\t", "\n", "\r"}

\* re.split(r"\s+", text): the pieces between maximal whitespace runs,
\* empty pieces at the two ends included
RECURSIVE SplitWs(_, _, _)
SplitWs(text, cur, inWs) ==
    IF text = <<>> THEN <<cur>>
    ELSE IF Head(text) \in Whitespace
         THEN IF inWs THEN SplitWs(Tail(text), cur, TRUE)
              ELSE <<cur>> \o SplitWs(Tail(text), <<>>, TRUE)
         ELSE SplitWs(Tail(text), Append(cur, Head(text)), FALSE)

\* the filter with len(t) > min_token_len
RECURSIVE KeepTokensStrict(_, _)
KeepTokensStrict(toks, min_token_len) ==
    IF toks = <<>> THEN <<>>
    ELSE IF Head(toks) # <<>> /\ Len(Head(toks)) > min_token_len
         THEN <<Head(toks)>> \o KeepTokensStrict(Tail(toks), min_token_len)
         ELSE KeepTokensStrict(Tail(toks), min_token_len)

\* [t for t in toks if t and len(t) >= min_token_len]
RECURSIVE KeepTokens(_, _)
KeepTokens(toks, min_token_len) ==
    IF toks = <<>> THEN <<>>
    ELSE IF Head(toks) # <<>> /\ Len(Head(toks)) >= min_token_len
         THEN <<Head(toks)>> \o KeepTokens(Tail(toks), min_token_len)
         ELSE KeepTokens(Tail(toks), min_token_len)

tokenize(text, min_token_len) ==
    KeepTokens(SplitWs(SubOther(Lower(text), FALSE), <<>>, FALSE), min_token_len)

MIN_TOKEN_LEN_DEFAULT == 2

----------------------------------------------------------------------------
(* The corpus *)

URL_A == "https://www.drugs.com/aspirin.html"
URL_B == "https://www.drugs.com/ibuprofen.html"
Urls == {URL_A, URL_B}

\* hashlib.md5(url).hexdigest() of the URLs of the model
_doc_id_from_url(url) ==
    CASE url = URL_A -> "be3f4d100ecd6b1f9903d00273da6795"
      [] url = URL_B -> "08c355c86fe04795f545310bf0ed6750"

\* hashlib.md5(text).hexdigest(): one digest per text, no collisions
TextHash(text) == <<"md5", text>>

\* texts of a row after _concat_row_fields: "aa bb", "aa aa", "Aa!b", "!", ""
Texts == { <<"a","a"," ","b","b">>,
           <<"a","a"," ","a","a">>,
           <<"A","a","!","b">>,
           <<"!">>,
           <<>> }

Rows == [url : Urls, text : Texts]

\* the build arguments --min-doc-tokens and --min-token-len
Configs == { [min_doc_tokens |-> 1,  min_token_len |-> 2],
             [min_doc_tokens |-> 2,  min_token_len |-> 2],
             [min_doc_tokens |-> 0,  min_token_len |-> 2],
             [min_doc_tokens |-> 1,  min_token_len |-> 1],
             [min_doc_tokens |-> -1, min_token_len |-> 2],
             [min_doc_tokens |-> 1,  min_token_len |-> -1] }

\* iter_docs_pages: one document per row, rows with empty text skipped
RECURSIVE iter_docs_pages(_)
iter_docs_pages(rs) ==
    IF rs = <<>> THEN <<>>
    ELSE IF Head(rs).text = <<>> THEN iter_docs_pages(Tail(rs))
         ELSE <<[doc_id |-> _doc_id_from_url(Head(rs).url),
                 url |-> Head(rs).url,
                 text |-> Head(rs).text]>> \o iter_docs_pages(Tail(rs))

----------------------------------------------------------------------------
(* Logarithms and the two idf formulas, in fixed point *)

\* scores and idf values are integers: the real value times SCALE
SCALE == 10000

\* round(math.log(n) * SCALE) for n = 1..40
LnTable == <<0, 6931, 10986, 13863, 16094, 17918, 19459, 20794, 21972, 23026,
             23979, 24849, 25649, 26391, 27081, 27726, 28332, 28904, 29444, 29957,
             30445, 30910, 31355, 31781, 32189, 32581, 32958, 33322, 33673, 34012,
             34340, 34657, 34965, 35264, 35553, 35835, 36109, 36376, 36636, 36889>>

\* math.log(p / q) for positive integers p, q
LnRatio(p, q) == LnTable[p] - LnTable[q]

Max(a, b) == IF a >= b THEN a ELSE b
Min(a, b) == IF a <= b THEN a ELSE b

\* idf = log((N + 1) / max(1, df)): a smoothed variant
IdfLogNSmoothed(df, N) == LnRatio(N + 1, Max(1, df))

\* idf = log(N / max(1, df))
idf_logN(df, N) == LnRatio(N, Max(1, df))

\* idf = log((N - df + 0.5) / (df + 0.5)), without the "+ 1"
IdfBm25NoPlusOne(df, N) == LnRatio(2 * N - 2 * df + 1, 2 * df + 1)

\* idf = log((N - df + 0.5) / (df + 0.5) + 1) = log((2N + 2) / (2 df + 1))
idf_bm25(df, N) == LnRatio(2 * N + 2, 2 * df + 1)

----------------------------------------------------------------------------
(* build_index *)

EmptyMap == [x \in {} |-> 0]

RECURSIVE SumOver(_, _)
SumOver(f, S) ==
    IF S = {} THEN 0
    ELSE LET x == CHOOSE y \in S : TRUE IN f[x] + SumOver(f, S \ {x})

\* for t in toks: postings[t][did] += 1   (both levels are defaultdicts)
RECURSIVE AddTokens(_, _, _)
AddTokens(acc, toks, did) ==
    IF toks = <<>> THEN acc
    ELSE LET t == Head(toks)
             old == IF t \in DOMAIN acc.p THEN acc.p[t] ELSE EmptyMap
             tf == IF did \in DOMAIN old THEN old[did] ELSE 0
             plist == [d \in DOMAIN old \cup {did} |-> IF d = did THEN tf + 1 ELSE old[d]]
             p2 == [u \in DOMAIN acc.p \cup {t} |-> IF u = t THEN plist ELSE acc.p[u]]
             o2 == IF t \in DOMAIN acc.p THEN acc.o ELSE Append(acc.o, t)
         IN AddTokens([p |-> p2, o |-> o2], Tail(toks), did)

DefaultConfig == [min_doc_tokens |-> 1, min_token_len |-> MIN_TOKEN_LEN_DEFAULT]

BuildIdle == bpc = "idle"

\* main() without the test that the CSV exists
BuildMainNoCheck(ConfigSet) ==
    /\ BuildIdle
    /\ builds < MaxBuilds
    /\ builds' = builds + 1
    /\ \E c \in ConfigSet : cfg' = c
    /\ bpc' = "loop"
    /\ rows' = iter_docs_pages(csv.rows)
    /\ UNCHANGED <<postings, termOrder, doclen, meta, seen_keys, registered, bN, bavgdl>>
    /\ wrote' = {}
    /\ UNCHANGED <<aux, csv, files, published, svars, sSeen>>

\* main(): parse the arguments, check the CSV exists, call build_index up to
\* the start of its loop
BuildMain(ConfigSet) ==
    /\ BuildIdle
    /\ builds < MaxBuilds
    /\ builds' = builds + 1
    /\ \E c \in ConfigSet : cfg' = c
    /\ IF ~csv.exists
       THEN /\ bpc' = "failed"
            /\ rows' = <<>>
       ELSE /\ bpc' = "loop"
            /\ rows' = iter_docs_pages(csv.rows)
    /\ UNCHANGED <<postings, termOrder, doclen, meta, seen_keys, registered, bN, bavgdl>>
    /\ wrote' = {}
    /\ UNCHANGED <<aux, csv, files, published, svars, sSeen>>

\* the build process ends, normally or not: its memory is gone
BuildExit ==
    /\ bpc \in {"done", "failed"}
    /\ bpc' = "idle"
    /\ cfg' = DefaultConfig
    /\ rows' = <<>>
    /\ postings' = EmptyMap
    /\ termOrder' = <<>>
    /\ doclen' = EmptyMap
    /\ meta' = EmptyMap
    /\ seen_keys' = {}
    /\ registered' = <<>>
    /\ bN' = 0
    /\ bavgdl' = [n |-> 0, d |-> 1]
    /\ wrote' = {}
    /\ UNCHANGED <<aux, csv, files, builds, published, svars, sSeen>>

\* the accumulators of the loop
Acc(p, o, dl, mt, sk, rg) ==
    [postings |-> p, termOrder |-> o, doclen |-> dl, meta |-> mt,
     seen_keys |-> sk, registered |-> rg]

EmptyAcc == Acc(EmptyMap, <<>>, EmptyMap, EmptyMap, {}, <<>>)

\* the body of the loop without the test on seen_keys
IndexDocNoDedup(acc, d, c) ==
    LET dedup_key == <<d.url, TextHash(d.text)>>
        toks == tokenize(d.text, c.min_token_len)
        did == d.doc_id
        added == AddTokens([p |-> acc.postings, o |-> acc.termOrder], toks, did)
    IN IF Len(toks) < c.min_doc_tokens
       THEN [acc EXCEPT !.seen_keys = acc.seen_keys \cup {dedup_key}]
       ELSE Acc(added.p,
                added.o,
                [x \in DOMAIN acc.doclen \cup {did} |->
                    IF x = did THEN Len(toks) ELSE acc.doclen[x]],
                [x \in DOMAIN acc.meta \cup {did} |->
                    IF x = did THEN [url |-> d.url] ELSE acc.meta[x]],
                acc.seen_keys \cup {dedup_key},
                Append(acc.registered, d))

\* the body of the loop without the test on min_doc_tokens
IndexDocNoThreshold(acc, d, c) ==
    LET dedup_key == <<d.url, TextHash(d.text)>>
        toks == tokenize(d.text, c.min_token_len)
        did == d.doc_id
        added == AddTokens([p |-> acc.postings, o |-> acc.termOrder], toks, did)
    IN IF dedup_key \in acc.seen_keys
       THEN acc
       ELSE Acc(added.p,
                added.o,
                [x \in DOMAIN acc.doclen \cup {did} |->
                    IF x = did THEN Len(toks) ELSE acc.doclen[x]],
                [x \in DOMAIN acc.meta \cup {did} |->
                    IF x = did THEN [url |-> d.url] ELSE acc.meta[x]],
                acc.seen_keys \cup {dedup_key},
                Append(acc.registered, d))

\* the body of the loop for one document d under the arguments c
IndexDoc(acc, d, c) ==
    LET dedup_key == <<d.url, TextHash(d.text)>>
        toks == tokenize(d.text, c.min_token_len)
        did == d.doc_id
        added == AddTokens([p |-> acc.postings, o |-> acc.termOrder], toks, did)
    IN IF dedup_key \in acc.seen_keys
       THEN acc
       ELSE IF Len(toks) < c.min_doc_tokens
            THEN [acc EXCEPT !.seen_keys = acc.seen_keys \cup {dedup_key}]
            ELSE Acc(added.p,
                     added.o,
                     [x \in DOMAIN acc.doclen \cup {did} |->
                         IF x = did THEN Len(toks) ELSE acc.doclen[x]],
                     [x \in DOMAIN acc.meta \cup {did} |->
                         IF x = did THEN [url |-> d.url] ELSE acc.meta[x]],
                     acc.seen_keys \cup {dedup_key},
                     Append(acc.registered, d))

\* the whole loop over the documents docs, from the accumulators acc
RECURSIVE RunLoop(_, _, _)
RunLoop(docs, acc, c) ==
    IF docs = <<>> THEN acc
    ELSE RunLoop(Tail(docs), IndexDoc(acc, Head(docs), c), c)

\* one iteration of the loop over the documents
BuildRecord ==
    /\ bpc = "loop"
    /\ rows # <<>>
    /\ LET a == IndexDoc(Acc(postings, termOrder, doclen, meta, seen_keys, registered),
                         Head(rows), cfg)
       IN /\ rows' = Tail(rows)
          /\ postings' = a.postings
          /\ termOrder' = a.termOrder
          /\ doclen' = a.doclen
          /\ meta' = a.meta
          /\ seen_keys' = a.seen_keys
          /\ registered' = a.registered
    /\ UNCHANGED <<aux, csv, files, bpc, cfg, bN, bavgdl, builds, published, wrote, svars, sSeen>>

\* the reader raises (the CSV cannot be opened or decoded): the build ends
\* inside the loop
BuildReadError ==
    /\ bpc = "loop"
    /\ bpc' = "failed"
    /\ UNCHANGED <<aux, csv, files, cfg, rows, postings, termOrder, doclen, meta,
                   seen_keys, bN, bavgdl, registered, builds, published, wrote, svars, sSeen>>

\* N = len(doclen)
DocCount(dl) == Cardinality(DOMAIN dl)

\* floor division instead of true division
AvgDlFloorDiv(dl, N) ==
    IF N # 0 THEN [n |-> SumOver(dl, DOMAIN dl) \div N, d |-> 1] ELSE [n |-> 0, d |-> 1]

\* avgdl = (sum(doclen.values()) / N) if N else 0.0, as a fraction
AvgDl(dl, N) ==
    IF N # 0 THEN [n |-> SumOver(dl, DOMAIN dl), d |-> N] ELSE [n |-> 0, d |-> 1]

\* after the loop: N, avgdl, and the output directory is created
BuildStats ==
    /\ bpc = "loop"
    /\ rows = <<>>
    /\ bN' = DocCount(doclen)
    /\ bavgdl' = AvgDl(doclen, DocCount(doclen))
    /\ bpc' = "open_inv"
    /\ UNCHANGED <<aux, csv, files, cfg, rows, postings, termOrder, doclen, meta,
                   seen_keys, registered, builds, published, wrote, svars, sSeen>>

\* the lines of inverted_index.jsonl, in the order of postings.items()
InvLinesOf(p, o) == [i \in 1..Len(o) |-> [term |-> o[i], postings |-> p[o[i]]]]

InvLines == InvLinesOf(postings, termOrder)

\* the sum of the term frequencies instead of the number of documents
DfSumOfTf(plist) == SumOver(plist, DOMAIN plist)

\* df = len(plist)
Df(plist) == Cardinality(DOMAIN plist)

\* the lines of idf.jsonl
IdfLinesOf(p, o, N) ==
    [i \in 1..Len(o) |->
        LET df == Df(p[o[i]])
        IN [term |-> o[i],
            df |-> df,
            idf_logN |-> idf_logN(df, N),
            idf_bm25 |-> idf_bm25(df, N)]]

IdfLines == IdfLinesOf(postings, termOrder, bN)

\* placeholder for the content of a meta.json that has none
NoMetaObject == [N |-> 0, avgdl |-> [n |-> 0, d |-> 1], doclen |-> EmptyMap, meta |-> EmptyMap,
                 min_doc_tokens |-> 0, min_token_len |-> 0]

\* the object written to meta.json
\* metadata that also record which run of the indexer wrote them
MetaObjectStamped ==
    [N |-> bN, avgdl |-> bavgdl, doclen |-> doclen, meta |-> meta,
     min_doc_tokens |-> cfg.min_doc_tokens,
     min_token_len |-> cfg.min_token_len,
     built_at |-> builds]

MetaObjectOf(N, avgdl, dl, mt, c) ==
    [N |-> N, avgdl |-> avgdl, doclen |-> dl, meta |-> mt,
     min_doc_tokens |-> c.min_doc_tokens,
     min_token_len |-> c.min_token_len]

MetaObject == MetaObjectOf(bN, bavgdl, doclen, meta, cfg)

\* the three artifacts build_index writes for the documents docs under the
\* arguments c
IndexOf(docs, c) ==
    LET a == RunLoop(docs, EmptyAcc, c)
        N == DocCount(a.doclen)
    IN [inv |-> InvLinesOf(a.postings, a.termOrder),
        idf |-> IdfLinesOf(a.postings, a.termOrder, N),
        meta |-> MetaObjectOf(N, AvgDl(a.doclen, N), a.doclen, a.meta, c)]

\* no build has finished yet
NoPublished == [some |-> FALSE, inv |-> <<>>, idf |-> <<>>, meta |-> NoMetaObject,
                corpus |-> <<>>, again |-> FALSE]

\* the build that is running has the corpus and the arguments of the last
\* build that finished
SameInputs ==
    /\ published.some
    /\ published.corpus = csv.rows
    /\ published.meta.min_doc_tokens = cfg.min_doc_tokens
    /\ published.meta.min_token_len = cfg.min_token_len

\* INVERTED_INDEX_PATH.open("w"): the file exists and is empty
OpenInv ==
    /\ bpc = "open_inv"
    /\ invFile' = [exists |-> TRUE, lines |-> <<>>]
    /\ bpc' = "write_inv"
    /\ wrote' = wrote \cup {"inv"}
    /\ UNCHANGED <<aux, csv, idfFile, metaFile, cfg, rows, postings, termOrder, doclen,
                   meta, seen_keys, bN, bavgdl, registered, builds, published, svars, sSeen>>

\* the lines are written and the file is closed
WriteInv ==
    /\ bpc = "write_inv"
    /\ invFile' = [exists |-> TRUE, lines |-> InvLines]
    /\ bpc' = "open_idf"
    /\ UNCHANGED <<aux, csv, idfFile, metaFile, cfg, rows, postings, termOrder, doclen,
                   meta, seen_keys, bN, bavgdl, registered, builds, published, wrote, svars, sSeen>>

OpenIdf ==
    /\ bpc = "open_idf"
    /\ idfFile' = [exists |-> TRUE, lines |-> <<>>]
    /\ bpc' = "write_idf"
    /\ wrote' = wrote \cup {"idf"}
    /\ UNCHANGED <<aux, csv, invFile, metaFile, cfg, rows, postings, termOrder, doclen,
                   meta, seen_keys, bN, bavgdl, registered, builds, published, svars, sSeen>>

WriteIdf ==
    /\ bpc = "write_idf"
    /\ idfFile' = [exists |-> TRUE, lines |-> IdfLines]
    /\ bpc' = "open_meta"
    /\ UNCHANGED <<aux, csv, invFile, metaFile, cfg, rows, postings, termOrder, doclen,
                   meta, seen_keys, bN, bavgdl, registered, builds, published, wrote, svars, sSeen>>

\* META_PATH.write_text: the file is opened (truncated) ...
OpenMeta ==
    /\ bpc = "open_meta"
    /\ metaFile' = [state |-> "empty", obj |-> NoMetaObject]
    /\ bpc' = "write_meta"
    /\ wrote' = wrote \cup {"meta"}
    /\ UNCHANGED <<aux, csv, invFile, idfFile, cfg, rows, postings, termOrder, doclen,
                   meta, seen_keys, bN, bavgdl, registered, builds, published, svars, sSeen>>

\* ... and the JSON text is written
WriteMeta ==
    /\ bpc = "write_meta"
    /\ metaFile' = [state |-> "written", obj |-> MetaObject]
    /\ bpc' = "done"
    /\ published' = [some |-> TRUE, inv |-> invFile.lines, idf |-> idfFile.lines,
                     meta |-> MetaObject, corpus |-> csv.rows, again |-> SameInputs]
    /\ sSeen' = IF spc \in {"load_inv", "load_idf", "load_meta"}
                THEN sSeen \cup {[inv |-> invFile.lines, idf |-> idfFile.lines,
                                  meta |-> MetaObject]}
                ELSE sSeen
    /\ UNCHANGED <<aux, csv, invFile, idfFile, cfg, rows, postings, termOrder, doclen,
                   meta, seen_keys, bN, bavgdl, registered, builds, wrote, svars>>

WritePositions == {"open_inv", "write_inv", "open_idf", "write_idf", "open_meta", "write_meta"}

\* the build process dies while writing (I/O error, kill): nothing is undone
BuildAbort ==
    /\ bpc \in WritePositions
    /\ bpc' = "failed"
    /\ UNCHANGED <<aux, csv, files, cfg, rows, postings, termOrder, doclen,
                   meta, seen_keys, bN, bavgdl, registered, builds, published, wrote, svars, sSeen>>

\* the extraction stage creates the CSV and appends one row per page
ExtractInit ==
    /\ ~csv.exists
    /\ BuildIdle
    /\ csv' = [exists |-> TRUE, rows |-> <<>>]
    /\ UNCHANGED <<aux, files, bvars, svars, sSeen>>

ExtractAppend(RowSet, maxRows) ==
    /\ csv.exists
    /\ BuildIdle
    /\ Len(csv.rows) < maxRows
    /\ \E r \in RowSet : csv' = [exists |-> TRUE, rows |-> Append(csv.rows, r)]
    /\ UNCHANGED <<aux, files, bvars, svars, sSeen>>

----------------------------------------------------------------------------
(* search *)

\* query texts: "aa", "aa bb", "b", "bb", "aa aa" and the empty query
Queries == { <<"a","a">>,
             <<"a","a"," ","b","b">>,
             <<"b">>,
             <<"b","b">>,
             <<"a","a"," ","a","a">>,
             <<>> }

Methods == {"bm25", "tfidf"}

MaxTopK == 2

NoMeta == [N |-> 0, avgdl |-> [n |-> 0, d |-> 1], doclen |-> EmptyMap, meta |-> EmptyMap]

SearchReset ==
    /\ inv_index' = EmptyMap
    /\ idf_table' = EmptyMap
    /\ smeta' = NoMeta
    /\ q_terms' = <<>>
    /\ cand_order' = <<>>
    /\ result' = <<>>

\* some artifact exists
AnyExists(inv, idf, mt) == inv.exists \/ idf.exists \/ mt.state # "missing"

\* inv_path.exists() and idf_path.exists() and meta_path.exists()
AllExist(inv, idf, mt) == inv.exists /\ idf.exists /\ mt.state # "missing"

\* search(): the arguments arrive and the three paths are checked
SearchStart(QuerySet) ==
    /\ spc = "idle"
    /\ \E q \in QuerySet : query' = q
    /\ \E m \in Methods : method' = m
    /\ \E k \in 1..MaxTopK : topk' = k
    /\ UNCHANGED <<inv_index, idf_table, smeta, q_terms, cand_order, result>>
    /\ steps' = <<"check">>
    /\ spc' = IF AllExist(invFile, idfFile, metaFile) THEN "load_inv" ELSE "failed"
    /\ sSeen' = IF published.some
                THEN {[inv |-> published.inv, idf |-> published.idf, meta |-> published.meta]}
                ELSE {}
    /\ UNCHANGED <<aux, csv, files, bvars>>

SearchMain == SearchStart(Queries)

\* load_inverted_index: the last line of a term wins
load_inverted_index(lines) ==
    [t \in {lines[i].term : i \in 1..Len(lines)} |->
        LET last == CHOOSE i \in 1..Len(lines) :
                        /\ lines[i].term = t
                        /\ \A j \in 1..Len(lines) : lines[j].term = t => j <= i
        IN lines[last].postings]

load_idf_table(lines) ==
    [t \in {lines[i].term : i \in 1..Len(lines)} |->
        LET last == CHOOSE i \in 1..Len(lines) :
                        /\ lines[i].term = t
                        /\ \A j \in 1..Len(lines) : lines[j].term = t => j <= i
        IN [df |-> lines[last].df,
            idf_logN |-> lines[last].idf_logN,
            idf_bm25 |-> lines[last].idf_bm25]]

load_meta(obj) == [N |-> obj.N, avgdl |-> obj.avgdl, doclen |-> obj.doclen, meta |-> obj.meta]

\* a loader that refuses an inverted index without lines
LoadInvRejectsEmpty ==
    /\ spc = "load_inv"
    /\ steps' = Append(steps, "load_inv")
    /\ IF ~invFile.exists \/ invFile.lines = <<>>
       THEN spc' = "failed" /\ UNCHANGED inv_index
       ELSE spc' = "load_idf" /\ inv_index' = load_inverted_index(invFile.lines)
    /\ UNCHANGED <<aux, csv, files, bvars, sSeen, query, method, topk, idf_table, smeta,
                   q_terms, cand_order, result>>

LoadInv ==
    /\ spc = "load_inv"
    /\ steps' = Append(steps, "load_inv")
    /\ IF ~invFile.exists
       THEN spc' = "failed" /\ UNCHANGED inv_index
       ELSE spc' = "load_idf" /\ inv_index' = load_inverted_index(invFile.lines)
    /\ UNCHANGED <<aux, csv, files, bvars, sSeen, query, method, topk, idf_table, smeta,
                   q_terms, cand_order, result>>

LoadIdf ==
    /\ spc = "load_idf"
    /\ steps' = Append(steps, "load_idf")
    /\ IF ~idfFile.exists
       THEN spc' = "failed" /\ UNCHANGED idf_table
       ELSE spc' = "load_meta" /\ idf_table' = load_idf_table(idfFile.lines)
    /\ UNCHANGED <<aux, csv, files, bvars, sSeen, query, method, topk, inv_index, smeta,
                   q_terms, cand_order, result>>

\* load_meta: json.loads raises on a file that is missing or still empty
LoadMeta ==
    /\ spc = "load_meta"
    /\ steps' = Append(steps, "load_meta")
    /\ IF metaFile.state \in {"missing", "empty"}
       THEN spc' = "failed" /\ UNCHANGED smeta
       ELSE spc' = "rank" /\ smeta' = load_meta(metaFile.obj)
    /\ UNCHANGED <<aux, csv, files, bvars, sSeen, query, method, topk, inv_index, idf_table,
                   q_terms, cand_order, result>>

\* inv_index.get(t, {})
PlistOf(inv, t) == IF t \in DOMAIN inv THEN inv[t] ELSE EmptyMap

\* plist.get(doc_id, 0)
TfOf(plist, did) == IF did \in DOMAIN plist THEN plist[did] ELSE 0

\* the documents that contain every query term (intersection)
RECURSIVE CandidateDocsAll(_, _)
CandidateDocsAll(terms, inv) ==
    IF terms = <<>> THEN {}
    ELSE IF Len(terms) = 1 THEN DOMAIN PlistOf(inv, Head(terms))
         ELSE DOMAIN PlistOf(inv, Head(terms)) \cap CandidateDocsAll(Tail(terms), inv)

RECURSIVE candidate_docs_SOFT(_, _)
candidate_docs_SOFT(terms, inv) ==
    IF terms = <<>> THEN {}
    ELSE DOMAIN PlistOf(inv, Head(terms)) \cup candidate_docs_SOFT(Tail(terms), inv)

\* idf_table.get(t, {}).get(field, 0.0)
IdfOf(idf, t, field) == IF t \in DOMAIN idf THEN idf[t][field] ELSE 0

\* (1.0 + math.log(tf)) * idf
TfidfTerm(tf, idfv) == ((SCALE + LnRatio(tf, 1)) * idfv) \div SCALE

RECURSIVE TfidfSum(_, _, _, _, _)
TfidfSum(terms, seen, did, inv, idf) ==
    IF terms = <<>> THEN 0
    ELSE LET t == Head(terms)
             tf == TfOf(PlistOf(inv, t), did)
         IN IF t \in seen \/ tf <= 0
            THEN TfidfSum(Tail(terms), seen \cup {t}, did, inv, idf)
            ELSE TfidfTerm(tf, IdfOf(idf, t, "idf_logN"))
                 + TfidfSum(Tail(terms), seen \cup {t}, did, inv, idf)

tfidf_score(query_terms, did, inv, idf) == TfidfSum(query_terms, {}, did, inv, idf)

\* k1 = 1.2 and b = 0.75 as fractions
K1_NUM == 6
K1_DEN == 5
B_NUM == 3
B_DEN == 4

\* avgdl used as it is
AvgdlDivisorNoGuard(avgdl) == avgdl

\* (avgdl if avgdl > 0 else 1.0): what dl is divided by
AvgdlDivisor(avgdl) == IF avgdl.n > 0 THEN avgdl ELSE [n |-> 1, d |-> 1]

\* denom = tf + k1 * (1 - b + b * (dl / a)), multiplied by K1_DEN * B_DEN * a.n
Bm25Denom(tf, dl, a) ==
    tf * K1_DEN * B_DEN * a.n + K1_NUM * ((B_DEN - B_NUM) * a.n + B_NUM * dl * a.d)

\* idf * (tf * (k1 + 1)) / (tf + k1 * (1 - b + b * (dl / avgdl))) with
\* avgdl = a.n / a.d (1 when avgdl is not positive):
\*   tf * (k1 + 1) / denom =
\*     tf * (K1_NUM + K1_DEN) * B_DEN * a.n
\*     / (tf * K1_DEN * B_DEN * a.n + K1_NUM * ((B_DEN - B_NUM) * a.n + B_NUM * dl * a.d))
Bm25Term(tf, idfv, dl, avgdl) ==
    LET a == AvgdlDivisor(avgdl)
        num == tf * (K1_NUM + K1_DEN) * B_DEN * a.n
        den == Bm25Denom(tf, dl, a)
        sat == (num * SCALE) \div (IF den # 0 THEN den ELSE 1)
    IN (idfv * sat) \div SCALE

\* the loop without the test "if t in seen: continue"
RECURSIVE Bm25SumNoSeen(_, _, _, _, _, _, _)
Bm25SumNoSeen(terms, seen, did, inv, idf, dl, avgdl) ==
    IF terms = <<>> THEN 0
    ELSE LET t == Head(terms)
             tf == TfOf(PlistOf(inv, t), did)
         IN IF tf <= 0
            THEN Bm25SumNoSeen(Tail(terms), seen \cup {t}, did, inv, idf, dl, avgdl)
            ELSE Bm25Term(tf, IdfOf(idf, t, "idf_bm25"), dl, avgdl)
                 + Bm25SumNoSeen(Tail(terms), seen \cup {t}, did, inv, idf, dl, avgdl)

RECURSIVE Bm25Sum(_, _, _, _, _, _, _)
Bm25Sum(terms, seen, did, inv, idf, dl, avgdl) ==
    IF terms = <<>> THEN 0
    ELSE LET t == Head(terms)
             tf == TfOf(PlistOf(inv, t), did)
         IN IF t \in seen \/ tf <= 0
            THEN Bm25Sum(Tail(terms), seen \cup {t}, did, inv, idf, dl, avgdl)
            ELSE Bm25Term(tf, IdfOf(idf, t, "idf_bm25"), dl, avgdl)
                 + Bm25Sum(Tail(terms), seen \cup {t}, did, inv, idf, dl, avgdl)

bm25_score(query_terms, did, inv, idf, dlen, avgdl) ==
    LET dl == IF did \in DOMAIN dlen THEN dlen[did] ELSE 0
    IN IF dl <= 0 THEN 0 ELSE Bm25Sum(query_terms, {}, did, inv, idf, dl, avgdl)

\* the orders in which a set can be iterated
Orders(S) ==
    {o \in [1..Cardinality(S) -> S] : \A i, j \in 1..Cardinality(S) : o[i] = o[j] => i = j}

ScoreOf(m, terms, did, inv, idf, mt) ==
    IF m = "bm25" THEN bm25_score(terms, did, inv, idf, mt.doclen, mt.avgdl)
    ELSE tfidf_score(terms, did, inv, idf)

\* the loop over the candidates without the test "if s > 0"
RECURSIVE ScoredNoFilter(_, _, _, _, _, _)
ScoredNoFilter(order, m, terms, inv, idf, mt) ==
    IF order = <<>> THEN <<>>
    ELSE <<<<Head(order), ScoreOf(m, terms, Head(order), inv, idf, mt)>>>>
         \o ScoredNoFilter(Tail(order), m, terms, inv, idf, mt)

\* the loop over the candidates: (did, s) is appended when s > 0
RECURSIVE Scored(_, _, _, _, _, _)
Scored(order, m, terms, inv, idf, mt) ==
    IF order = <<>> THEN <<>>
    ELSE LET s == ScoreOf(m, terms, Head(order), inv, idf, mt)
             rest == Scored(Tail(order), m, terms, inv, idf, mt)
         IN IF s > 0 THEN <<<<Head(order), s>>>> \o rest ELSE rest

\* insertion of x into a list sorted by descending score, after its equals
RECURSIVE InsertDesc(_, _)
InsertDesc(sorted, x) ==
    IF sorted = <<>> THEN <<x>>
    ELSE IF Head(sorted)[2] >= x[2]
         THEN <<Head(sorted)>> \o InsertDesc(Tail(sorted), x)
         ELSE <<x>> \o sorted

\* the list left in the iteration order of the candidates
SortDescDropped(scored) == scored

\* scored.sort(key=lambda x: x[1], reverse=True): stable
RECURSIVE SortDesc(_)
SortDesc(scored) ==
    IF scored = <<>> THEN <<>>
    ELSE InsertDesc(SortDesc(SubSeq(scored, 1, Len(scored) - 1)), scored[Len(scored)])

\* scored[:topk] for topk >= 1
Truncate(scored, k) == SubSeq(scored, 1, Min(k, Len(scored)))

\* inv_index[t] instead of inv_index.get(t, {}): a query term that is not in
\* the index raises KeyError
SearchRankKeyError ==
    /\ spc = "rank"
    /\ LET terms == tokenize(query, MIN_TOKEN_LEN_DEFAULT)
           candidates == candidate_docs_SOFT(terms, inv_index)
       IN /\ q_terms' = terms
          /\ IF \E i \in 1..Len(terms) : terms[i] \notin DOMAIN inv_index
             THEN /\ cand_order' = <<>>
                  /\ result' = <<>>
                  /\ steps' = steps \o <<"tokenize", "candidates">>
                  /\ spc' = "failed"
             ELSE /\ spc' = "done"
                  /\ IF candidates = {}
                     THEN /\ cand_order' = <<>>
                          /\ result' = <<>>
                          /\ steps' = steps \o <<"tokenize", "candidates">>
                     ELSE /\ \E o \in Orders(candidates) : cand_order' = o
                          /\ result' = Truncate(SortDesc(Scored(cand_order', method, terms,
                                                                inv_index, idf_table, smeta)), topk)
                          /\ steps' = steps \o <<"tokenize", "candidates", "score", "sort">>
    /\ UNCHANGED <<aux, csv, files, bvars, sSeen, query, method, topk, inv_index, idf_table, smeta>>

\* the rest of search(): tokenize the query, select the candidates, score
\* them in the iteration order of the set, sort, truncate
SearchRank ==
    /\ spc = "rank"
    /\ LET terms == tokenize(query, MIN_TOKEN_LEN_DEFAULT)
           candidates == candidate_docs_SOFT(terms, inv_index)
       IN /\ q_terms' = terms
          /\ IF candidates = {}
             THEN /\ cand_order' = <<>>
                  /\ result' = <<>>
                  /\ steps' = steps \o <<"tokenize", "candidates">>
             ELSE /\ \E o \in Orders(candidates) : cand_order' = o
                  /\ result' = Truncate(SortDesc(Scored(cand_order', method, terms,
                                                        inv_index, idf_table, smeta)), topk)
                  /\ steps' = steps \o <<"tokenize", "candidates", "score", "sort">>
    /\ spc' = "done"
    /\ UNCHANGED <<aux, csv, files, bvars, sSeen, query, method, topk, inv_index, idf_table, smeta>>

\* the search process ends, with its results printed or with its failure
SearchExit ==
    /\ spc \in {"done", "failed"}
    /\ spc' = "idle"
    /\ query' = <<>>
    /\ method' = "bm25"
    /\ topk' = 1
    /\ SearchReset
    /\ steps' = <<>>
    /\ sSeen' = {}
    /\ UNCHANGED <<aux, csv, files, bvars>>

SearchIdle == spc = "idle"

----------------------------------------------------------------------------
(* Specifications *)

----------------------------------------------------------------------------
(* crawler *)

\* a URL is the sequence of its pieces: scheme and host as one piece, then
\* the characters of the path
BASE_URL == <<"https://www.drugs.com">>

\* the URLs extract_links can return: hrefs "/", "/a", "/a " and "/p"; only
\* "/" at the end of the path is removed by normalize_url
CrawlUrls == {BASE_URL, BASE_URL \o <<"/", "a">>, BASE_URL \o <<"/", "a", " ">>,
              BASE_URL \o <<"/", "p">>}

\* normalize_url of a URL of this host without query: the "/" at the end of
\* the path are removed
RECURSIVE normalize_url(_)
normalize_url(u) ==
    IF Len(u) > 1 /\ u[Len(u)] = "/" THEN normalize_url(SubSeq(u, 1, Len(u) - 1))
    ELSE u

\* str.rstrip() and str.lstrip()
RECURSIVE RStrip(_)
RStrip(line) ==
    IF line = <<>> THEN line
    ELSE IF line[Len(line)] \in Whitespace
         THEN RStrip(SubSeq(line, 1, Len(line) - 1))
         ELSE line

RECURSIVE LStrip(_)
LStrip(line) ==
    IF line = <<>> THEN line
    ELSE IF Head(line) \in Whitespace THEN LStrip(Tail(line)) ELSE line

\* str.strip()
Strip(line) == LStrip(RStrip(line))

\* str(cnt) and int(cnt) for the counts of the retry file
IntStr(n) == <<"0", "1", "2", "3", "4", "5", "6", "7", "8", "9">>[n + 1]
StrInt(d) == CHOOSE n \in 0..9 : IntStr(n) = d

\* load_queue: the lines of the file, stripped, without the blank ones
RECURSIVE load_queue(_)
load_queue(lines) ==
    IF lines = <<>> THEN <<>>
    ELSE IF Strip(Head(lines)) = <<>> THEN load_queue(Tail(lines))
         ELSE <<Strip(Head(lines))>> \o load_queue(Tail(lines))

\* save_queue: one line per URL, in the order of the queue
save_queue(q) == q

\* load_visited: the set of the stripped lines that are not blank
load_visited(lines) == {Strip(l) : l \in {x \in lines : Strip(x) # <<>>}}

\* save_visited: one line per URL (the order of the lines is not modelled)
save_visited(v) == v

\* one line of the retry file: url, tab, count
RetryLine(u, cnt) == u \o <<"\t", IntStr(cnt)>>

\* line.strip().split("\t") with two parts: the part before the tab
RetryUrl(line) == SubSeq(Strip(line), 1, Len(Strip(line)) - 2)

\* ... and the count after it
RetryCount(line) == StrInt(Strip(line)[Len(Strip(line))])

\* load_retry_counts: every line gives one entry (the written lines have
\* distinct urls)
load_retry_counts(lines) ==
    [u \in {RetryUrl(l) : l \in lines} |->
        RetryCount(CHOOSE l \in lines : RetryUrl(l) = u)]

\* save_retry_counts: one line per entry
save_retry_counts(d) == {RetryLine(u, d[u]) : u \in DOMAIN d}

\* no state file of the crawler exists
CrawlFilesEmpty ==
    /\ queueFile = <<>>
    /\ visitedFile = {}
    /\ retryFile = {}
    /\ failedFile = <<>>

\* no crawl_step has run
CrawlIdle ==
    /\ cpc = "idle"
    /\ limit = 0
    /\ count = 0
    /\ to_visit_q = <<>>
    /\ to_visit_set = {}
    /\ visited = {}
    /\ retry_counts = EmptyMap
    /\ cur_url = <<>>
    /\ fetched = [u \in CrawlUrls |-> 0]
    /\ settled = {}
    /\ saves = 0
    /\ runs = 0

MAX_RETRIES == 3

MaxRuns == 2
MaxLimit == 8

\* the limits of a short run and of a long run
CrawlLimits == {2, MaxLimit}

\* the outcomes of download_page
Statuses == {"ok", "blocked", "skip-nonhtml", "http-error", "exception"}

\* the function f without the key k
Without(f, k) == [x \in DOMAIN f \ {k} |-> f[x]]

\* the function f with f[k] = v
With(f, k, v) == [x \in DOMAIN f \cup {k} |-> IF x = k THEN v ELSE f[x]]

\* the start of crawl_step: the saved state is loaded, and the seed is put
\* in the frontier when the frontier is empty and the seed is not visited
CrawlStart(LimitSet) ==
    /\ cpc = "idle"
    /\ runs < MaxRuns
    /\ runs' = runs + 1
    /\ \E l \in LimitSet : limit' = l
    /\ LET q == load_queue(queueFile)
           seeded == IF q = <<>> /\ BASE_URL \notin load_visited(visitedFile)
                     THEN <<normalize_url(BASE_URL)>> ELSE q
       IN /\ to_visit_q' = seeded
          /\ to_visit_set' = {seeded[i] : i \in 1..Len(seeded)}
    /\ visited' = load_visited(visitedFile)
    /\ retry_counts' = load_retry_counts(retryFile)
    /\ count' = 0
    /\ saves' = 0
    /\ cpc' = "loop"
    /\ UNCHANGED <<csv, files, bvars, svars, sSeen, tk, bm, cfiles, cur_url, fetched, settled>>

\* the loop test without "count < limit"
CrawlPopNoLimit ==
    /\ cpc = "loop"
    /\ to_visit_q # <<>>
    /\ cur_url' = Head(to_visit_q)
    /\ to_visit_q' = Tail(to_visit_q)
    /\ to_visit_set' = to_visit_set \ {Head(to_visit_q)}
    /\ cpc' = IF Head(to_visit_q) \in visited THEN "loop" ELSE "fetch"
    /\ UNCHANGED <<csv, files, bvars, svars, sSeen, tk, bm, cfiles, limit, count,
                   visited, retry_counts, fetched, settled, saves, runs>>

\* the head of an iteration: the next URL leaves the frontier and the helper
\* set; a URL that is already visited is dropped
CrawlPop ==
    /\ cpc = "loop"
    /\ to_visit_q # <<>>
    /\ count < limit
    /\ cur_url' = Head(to_visit_q)
    /\ to_visit_q' = Tail(to_visit_q)
    /\ to_visit_set' = to_visit_set \ {Head(to_visit_q)}
    /\ cpc' = IF Head(to_visit_q) \in visited THEN "loop" ELSE "fetch"
    /\ UNCHANGED <<csv, files, bvars, svars, sSeen, tk, bm, cfiles, limit, count,
                   visited, retry_counts, fetched, settled, saves, runs>>

\* the links of a page that are neither visited nor in the frontier, in the
\* orders in which the loop over the set found_links can append them
NewLinks(found, vis, qset) ==
    LET new == {u \in found : u \notin vis /\ u \notin qset}
    IN {o \in [1..Cardinality(new) -> new] :
           \A i, j \in 1..Cardinality(new) : o[i] = o[j] => i = j}

\* status in ("http-error", "exception"): requeue up to MAX_RETRIES times,
\* then give up
OnFailure(url, attempts) ==
    IF attempts <= MAX_RETRIES
    THEN /\ to_visit_q' = Append(to_visit_q, url)
         /\ to_visit_set' = to_visit_set \cup {url}
         /\ retry_counts' = With(retry_counts, url, attempts)
         /\ UNCHANGED <<visited, failedFile>>
    ELSE /\ visited' = visited \cup {url}
         /\ failedFile' = Append(failedFile, url)
         /\ retry_counts' = Without(retry_counts, url)
         /\ UNCHANGED <<to_visit_q, to_visit_set>>

\* the rest of an iteration: download_page returns a status and, with
\* status ok, the links of the page
CrawlFetch ==
    /\ cpc = "fetch"
    /\ count' = count + 1
    /\ fetched' = [fetched EXCEPT ![cur_url] = @ + 1]
    /\ cpc' = "loop"
    /\ \E status \in Statuses :
          CASE status = "ok" ->
                 /\ visited' = visited \cup {cur_url}
                 /\ retry_counts' = Without(retry_counts, cur_url)
                 /\ \E found \in SUBSET CrawlUrls :
                       \E o \in NewLinks(found, visited', to_visit_set) :
                          /\ to_visit_q' = to_visit_q \o o
                          /\ to_visit_set' = to_visit_set \cup {o[i] : i \in 1..Len(o)}
                 /\ settled' = settled \cup {cur_url}
                 /\ UNCHANGED failedFile
            [] status \in {"http-error", "exception"} ->
                 /\ OnFailure(cur_url,
                              (IF cur_url \in DOMAIN retry_counts
                               THEN retry_counts[cur_url] ELSE 0) + 1)
                 /\ UNCHANGED settled
            [] OTHER ->
                 /\ visited' = visited \cup {cur_url}
                 /\ retry_counts' = Without(retry_counts, cur_url)
                 /\ settled' = settled \cup {cur_url}
                 /\ UNCHANGED <<to_visit_q, to_visit_set, failedFile>>
    /\ UNCHANGED <<csv, files, bvars, svars, sSeen, tk, bm, queueFile, visitedFile,
                   retryFile, limit, cur_url, saves, runs>>

\* the loop has ended: the frontier, the visited set and the retry counts
\* are saved
CrawlSave ==
    /\ cpc = "loop"
    /\ ~(to_visit_q # <<>> /\ count < limit)
    /\ queueFile' = save_queue(to_visit_q)
    /\ visitedFile' = save_visited(visited)
    /\ retryFile' = save_retry_counts(retry_counts)
    /\ saves' = saves + 1
    /\ cpc' = "done"
    /\ UNCHANGED <<csv, files, bvars, svars, sSeen, tk, bm, failedFile, limit, count,
                   to_visit_q, to_visit_set, visited, retry_counts, cur_url,
                   fetched, settled, runs>>

\* crawl_step returns and the process ends: its memory is gone
CrawlExit ==
    /\ cpc = "done"
    /\ cpc' = "idle"
    /\ limit' = 0
    /\ count' = 0
    /\ to_visit_q' = <<>>
    /\ to_visit_set' = {}
    /\ visited' = {}
    /\ retry_counts' = EmptyMap
    /\ cur_url' = <<>>
    /\ saves' = 0
    /\ UNCHANGED <<csv, files, bvars, svars, sSeen, tk, bm, cfiles, fetched, settled, runs>>

----------------------------------------------------------------------------
(* single calls of the pure functions *)

TkIdle == [pc |-> "idle", text |-> <<>>, min_token_len |-> 0, out |-> <<>>]

BmIdle == [pc |-> "idle", tf |-> 0, dl |-> 0, avgdl |-> [n |-> 0, d |-> 1], idf |-> 0,
           divisor |-> [n |-> 1, d |-> 1], denom |-> 1, score |-> 0]

\* the inputs of one call of tokenize: texts of at most MaxTextLen characters
\* over a lower-case letter, an upper-case letter, a digit, a kept sign, the
\* space, the tab, the newline and a character that is not kept
MaxTextLen == 4

TokAlphabet == {"a", "B", "1", "-", " ", "\t", "\n", "!"}
TokMinLens == {-1, 0, 1, 2, 3}

RECURSIVE TextsUpTo(_)
TextsUpTo(n) ==
    IF n = 0 THEN {<<>>}
    ELSE LET shorter == TextsUpTo(n - 1)
         IN shorter \cup {Append(t, c) : t \in {x \in shorter : Len(x) = n - 1},
                                         c \in TokAlphabet}

TokCalls ==
    { [pc |-> "call", text |-> t, min_token_len |-> m, out |-> <<>>] :
          t \in TextsUpTo(MaxTextLen), m \in TokMinLens }

\* one call of tokenize
TokStep ==
    /\ tk.pc = "call"
    /\ tk' = [tk EXCEPT !.pc = "done", !.out = tokenize(tk.text, tk.min_token_len)]
    /\ UNCHANGED <<csv, files, bvars, svars, sSeen, bm, cfiles, cvars>>

\* the inputs of one pass through the body of the loop of bm25_score: a
\* term frequency, a document length, avgdl as a fraction and an idf
MaxTf == 3
MaxDl == 3

Bm25Avgdls == { [n |-> 0, d |-> 1], [n |-> 1, d |-> 2], [n |-> 1, d |-> 1],
                [n |-> 3, d |-> 2], [n |-> 2, d |-> 1] }
Bm25Idfs == {0, 2877, 6931}

Bm25Calls ==
    { [pc |-> "call", tf |-> tf, dl |-> dl, avgdl |-> a, idf |-> i,
       divisor |-> [n |-> 1, d |-> 1], denom |-> 1, score |-> 0] :
          tf \in 1..MaxTf, dl \in 0..MaxDl, a \in Bm25Avgdls, i \in Bm25Idfs }

\* the body of the loop of bm25_score for a term with tf >= 1
Bm25Step ==
    /\ bm.pc = "call"
    /\ bm' = [bm EXCEPT !.pc = "done",
                        !.divisor = AvgdlDivisor(bm.avgdl),
                        !.denom = Bm25Denom(bm.tf, bm.dl, AvgdlDivisor(bm.avgdl)),
                        !.score = Bm25Term(bm.tf, bm.idf, bm.dl, bm.avgdl)]
    /\ UNCHANGED <<csv, files, bvars, svars, sSeen, tk, cfiles, cvars>>

----------------------------------------------------------------------------
vars == <<csv, files, bvars, svars, sSeen, aux>>

\* nothing extracted, built or searched yet
InitIndex ==
    /\ csv = [exists |-> FALSE, rows |-> <<>>]
    /\ invFile = [exists |-> FALSE, lines |-> <<>>]
    /\ idfFile = [exists |-> FALSE, lines |-> <<>>]
    /\ metaFile = [state |-> "missing", obj |-> NoMetaObject]
    /\ bpc = "idle"
    /\ cfg = DefaultConfig
    /\ rows = <<>>
    /\ postings = EmptyMap
    /\ termOrder = <<>>
    /\ doclen = EmptyMap
    /\ meta = EmptyMap
    /\ seen_keys = {}
    /\ bN = 0
    /\ bavgdl = [n |-> 0, d |-> 1]
    /\ registered = <<>>
    /\ builds = 0
    /\ published = NoPublished
    /\ wrote = {}
    /\ sSeen = {}
    /\ spc = "idle"
    /\ query = <<>>
    /\ method = "bm25"
    /\ topk = 1
    /\ inv_index = EmptyMap
    /\ idf_table = EmptyMap
    /\ smeta = NoMeta
    /\ q_terms = <<>>
    /\ cand_order = <<>>
    /\ result = <<>>
    /\ steps = <<>>

Init ==
    /\ InitIndex
    /\ tk = TkIdle
    /\ bm = BmIdle
    /\ CrawlFilesEmpty
    /\ CrawlIdle

\* the texts and arguments of the runs in which builds and searches alternate
SmallTexts == { <<"a","a"," ","b","b">>,
                <<"a","a"," ","a","a">>,
                <<"A","a","!","b">> }
SmallRows == [url : Urls, text : SmallTexts]
SmallConfigs == { [min_doc_tokens |-> 1, min_token_len |-> 2],
                  [min_doc_tokens |-> 1, min_token_len |-> 1] }
MaxSmallRecords == 2

\* the commands run one at a time: extraction, builds and searches alternate
Next ==
    \/ SearchIdle /\ ExtractInit
    \/ SearchIdle /\ ExtractAppend(SmallRows, MaxSmallRecords)
    \/ SearchIdle /\ BuildMain(SmallConfigs)
    \/ BuildRecord \/ BuildReadError \/ BuildStats \/ OpenInv \/ WriteInv \/ OpenIdf
    \/ WriteIdf \/ OpenMeta \/ WriteMeta \/ BuildAbort \/ BuildExit
    \/ BuildIdle /\ SearchMain
    \/ LoadInv \/ LoadIdf \/ LoadMeta \/ SearchRank \/ SearchExit

Spec == Init /\ [][Next]_vars

\* one build of one corpus, over all the rows and arguments of the model
NextBuild ==
    \/ builds = 0 /\ ExtractInit
    \/ builds = 0 /\ ExtractAppend(Rows, MaxRecords)
    \/ builds = 0 /\ BuildMain(Configs)
    \/ BuildRecord \/ BuildReadError \/ BuildStats \/ OpenInv \/ WriteInv \/ OpenIdf
    \/ WriteIdf \/ OpenMeta \/ WriteMeta \/ BuildAbort \/ BuildExit

SpecBuild == Init /\ [][NextBuild]_vars

\* The indexer and the searcher as two processes on the same index directory:
\* nothing in either program waits for the other, so their steps interleave
\* freely.  The corpus is one page extracted once or twice.
MaxConcRecords == 1

ConcRows == [url : {URL_A}, text : SmallTexts]
ConcConfigs == {DefaultConfig}
ConcQueries == { <<"a","a">> }

NextConc ==
    \/ BuildIdle /\ SearchIdle /\ ExtractInit
    \/ BuildIdle /\ ExtractAppend(ConcRows, MaxConcRecords)
    \/ BuildMain(ConcConfigs)
    \/ BuildRecord \/ BuildStats \/ OpenInv \/ WriteInv \/ OpenIdf
    \/ WriteIdf \/ OpenMeta \/ WriteMeta \/ BuildExit
    \/ SearchStart(ConcQueries)
    \/ LoadInv \/ LoadIdf \/ LoadMeta \/ SearchRank \/ SearchExit

SpecConc == Init /\ [][NextConc]_vars

\* Builds over pages with little or no text, each followed by searches: the
\* text "!" has no token, "Aa!b" has one token of length 2, and the empty
\* text is skipped by the reader.
MaxSparseRecords == 2

SparseTexts == { <<"!">>, <<"A","a","!","b">>, <<>> }
SparseRows == [url : Urls, text : SparseTexts]
SparseConfigs == { [min_doc_tokens |-> 1, min_token_len |-> 2],
                   [min_doc_tokens |-> 2, min_token_len |-> 2] }

NextSparse ==
    \/ SearchIdle /\ ExtractInit
    \/ SearchIdle /\ ExtractAppend(SparseRows, MaxSparseRecords)
    \/ SearchIdle /\ BuildMain(SparseConfigs)
    \/ BuildRecord \/ BuildStats \/ OpenInv \/ WriteInv \/ OpenIdf
    \/ WriteIdf \/ OpenMeta \/ WriteMeta \/ BuildExit
    \/ BuildIdle /\ SearchMain
    \/ LoadInv \/ LoadIdf \/ LoadMeta \/ SearchRank \/ SearchExit

SpecSparse == Init /\ [][NextSparse]_vars

\* One build, then searches on the index it wrote.  The pages have two
\* tokens ("aa bb"), one token ("Aa!b") or none ("!"), and the build keeps
\* pages without tokens when --min-doc-tokens is 0.
MaxScoreRecords == 3

ScoreTexts == { <<"a","a"," ","b","b">>, <<"A","a","!","b">>, <<"!">> }
ScoreRows == [url : Urls, text : ScoreTexts]
ScoreConfigs == { [min_doc_tokens |-> 1, min_token_len |-> 2],
                  [min_doc_tokens |-> 0, min_token_len |-> 2] }
ScoreQueries == { <<"a","a">>, <<"b","b">>, <<"a","a"," ","b","b">> }

NextScore ==
    \/ builds = 0 /\ ExtractInit
    \/ builds = 0 /\ ExtractAppend(ScoreRows, MaxScoreRecords)
    \/ builds = 0 /\ BuildMain(ScoreConfigs)
    \/ BuildRecord \/ BuildStats \/ OpenInv \/ WriteInv \/ OpenIdf
    \/ WriteIdf \/ OpenMeta \/ WriteMeta \/ BuildExit
    \/ BuildIdle /\ SearchStart(ScoreQueries)
    \/ LoadInv \/ LoadIdf \/ LoadMeta \/ SearchRank \/ SearchExit

SpecScore == Init /\ [][NextScore]_vars

\* single passes through the body of the loop of bm25_score
InitBm25 ==
    /\ InitIndex
    /\ tk = TkIdle
    /\ bm \in Bm25Calls
    /\ CrawlFilesEmpty
    /\ CrawlIdle

NextBm25 == Bm25Step

SpecBm25 == InitBm25 /\ [][NextBm25]_vars

\* single calls of tokenize
InitTok ==
    /\ InitIndex
    /\ tk \in TokCalls
    /\ bm = BmIdle
    /\ CrawlFilesEmpty
    /\ CrawlIdle

NextTok == TokStep

SpecTok == InitTok /\ [][NextTok]_vars

\* the saved state a run can find: a frontier with a URL twice or with a
\* visited URL, retry counts up to and above MAX_RETRIES
MaxAnyLimit == 3
AnyUrls == {BASE_URL, BASE_URL \o <<"/", "a">>, BASE_URL \o <<"/", "a", " ">>}
AnyQueues == {<<>>} \cup {<<u>> : u \in AnyUrls} \cup {<<u, v>> : u, v \in AnyUrls}
AnyRetryLines == {RetryLine(BASE_URL \o <<"/", "a">>, MAX_RETRIES),
                  RetryLine(BASE_URL, MAX_RETRIES + 2)}

InitCrawlAny ==
    /\ InitIndex /\ tk = TkIdle /\ bm = BmIdle
    /\ CrawlIdle
    /\ queueFile \in AnyQueues
    /\ visitedFile \in SUBSET AnyUrls
    /\ retryFile \in SUBSET AnyRetryLines
    /\ failedFile = <<>>

NextCrawlAny ==
    \/ CrawlStart(0..MaxAnyLimit)
    \/ CrawlPop \/ CrawlFetch \/ CrawlSave \/ CrawlExit

\* a running crawl_step takes its next step: every fetch returns (requests
\* has timeouts, the pauses are finite)
CrawlFair == WF_vars(CrawlPop) /\ WF_vars(CrawlFetch) /\ WF_vars(CrawlSave)

SpecCrawlAny == InitCrawlAny /\ [][NextCrawlAny]_vars /\ CrawlFair

\* runs of the crawler, one after the other, from no saved state
NextCrawl ==
    \/ CrawlStart(CrawlLimits)
    \/ CrawlPop \/ CrawlFetch \/ CrawlSave \/ CrawlExit

SpecCrawl == Init /\ [][NextCrawl]_vars

----------------------------------------------------------------------------
(* Properties *)

Range(f) == {f[i] : i \in DOMAIN f}

\* number of occurrences of t in a token list
RECURSIVE Count(_, _)
Count(t, toks) ==
    IF toks = <<>> THEN 0
    ELSE (IF Head(toks) = t THEN 1 ELSE 0) + Count(t, Tail(toks))

BuildDone == bpc = "done"

\* what a search would load from the files as they are
DiskInv == load_inverted_index(invFile.lines)
DiskIdf == load_idf_table(idfFile.lines)

\* every token any text of the model can produce
AllTerms ==
    UNION {Range(tokenize(x, 0)) : x \in Texts}

InvalidConfig(c) == c.min_doc_tokens < 0 \/ c.min_token_len < 0

\* C1: when a build with valid arguments has finished, for every document
\* the loop registered and every term t, the persisted postings[t][doc_id]
\* is the number of occurrences of t in the tokens of that document's text
\* (no posting when that number is 0).
C1_PostingsAreExactCounts ==
    (BuildDone /\ ~InvalidConfig(cfg)) =>
        \A i \in 1..Len(registered) : \A t \in AllTerms \cup DOMAIN DiskInv :
            TfOf(PlistOf(DiskInv, t), registered[i].doc_id)
                = Count(t, tokenize(registered[i].text, cfg.min_token_len))

\* C2: when a build has finished, the term-statistics file has one line per
\* term of the postings file, its df is the number of documents with a
\* posting for the term, and df <= N of the metadata file.
C2_DfIsPostingCount ==
    BuildDone =>
        /\ DOMAIN DiskIdf = DOMAIN DiskInv
        /\ \A t \in DOMAIN DiskIdf :
              /\ DiskIdf[t].df = Cardinality(DOMAIN DiskInv[t])
              /\ DiskIdf[t].df <= metaFile.obj.N

C2_Witness ==
    /\ BuildDone
    /\ metaFile.obj.N = 2
    /\ \E t \in DOMAIN DiskIdf : DiskIdf[t].df = 2 /\ \E d \in DOMAIN DiskInv[t] : DiskInv[t][d] = 2
    /\ \E t \in DOMAIN DiskIdf : DiskIdf[t].df = 1

\* C3: when a build has finished, avgdl of the metadata file is the sum of
\* the persisted document lengths divided by N when N > 0, and 0 when N = 0.
C3_AvgdlIsMeanLength ==
    BuildDone =>
        LET m == metaFile.obj
        IN /\ m.avgdl.d > 0
           /\ m.N > 0 => m.avgdl.n * m.N = SumOver(m.doclen, DOMAIN m.doclen) * m.avgdl.d
           /\ m.N = 0 => m.avgdl.n = 0

C3_Witness ==
    /\ BuildDone
    /\ metaFile.obj.N = 2
    /\ SumOver(metaFile.obj.doclen, DOMAIN metaFile.obj.doclen) = 3

SearchDone == spc = "done"

\* C4: a search that returns, in either mode and for any limit K >= 1,
\* returns at most K pairs and their scores never increase along the list.
C4_AtMostKNonIncreasing ==
    SearchDone =>
        /\ Len(result) <= topk
        /\ \A i, j \in 1..Len(result) : i < j => result[i][2] >= result[j][2]

C4_Witness ==
    /\ SearchDone
    /\ topk = 1
    /\ Len(cand_order) = 2
    /\ Len(result) = 1
    /\ ScoreOf(method, q_terms, cand_order[1], inv_index, idf_table, smeta)
         < ScoreOf(method, q_terms, cand_order[2], inv_index, idf_table, smeta)

DocIdRank(did) ==
    CASE did = "08c355c86fe04795f545310bf0ed6750" -> 1
      [] did = "be3f4d100ecd6b1f9903d00273da6795" -> 2

\* C6: documents with equal scores appear in ascending doc_id order, whatever
\* the iteration order of the candidate set, and the tied document that
\* survives truncation is the one with the smallest doc_id.
C6_TiesByAscendingDocId ==
    SearchDone =>
        /\ \A i, j \in 1..Len(result) :
              (i < j /\ result[i][2] = result[j][2])
                  => DocIdRank(result[i][1]) < DocIdRank(result[j][1])
        /\ \A d \in Range(cand_order) : \A i \in 1..Len(result) :
              (Len(result) = topk
                 /\ ScoreOf(method, q_terms, d, inv_index, idf_table, smeta) = result[i][2]
                 /\ DocIdRank(d) < DocIdRank(result[i][1]))
                  => \E j \in 1..Len(result) : result[j][1] = d

\* C7: a search tokenizes the query as the build that wrote the index
\* tokenized the texts: a term of the loaded index is among the query terms
\* exactly when the build's tokenizer (with the min_token_len recorded in the
\* metadata) produces it from the query text.
C7_SameTokenizerConfig ==
    (SearchDone /\ metaFile.state = "written") =>
        \A t \in DOMAIN inv_index :
            t \in Range(q_terms)
                <=> t \in Range(tokenize(query, metaFile.obj.min_token_len))

\* C8: while one of the three artifacts is missing, a search gets no further
\* than the existence check: it fails there, having loaded nothing, tokenized
\* nothing and returned nothing.
C8_MissingArtifactFailsAtLoad ==
    (~invFile.exists \/ ~idfFile.exists \/ metaFile.state = "missing") =>
        /\ spc \in {"idle", "failed"}
        /\ spc = "failed" =>
              /\ steps = <<"check">>
              /\ q_terms = <<>>
              /\ cand_order = <<>>
              /\ result = <<>>

C8_Witness ==
    /\ spc = "failed"
    /\ invFile.exists
    /\ idfFile.exists
    /\ metaFile.state = "missing"

\* the score of some candidate was computed with a default standing in for a
\* missing term-statistics entry or a missing length record
UsedDefault ==
    \E d \in Range(cand_order) : \E t \in Range(q_terms) \cap DOMAIN inv_index :
        /\ d \in DOMAIN inv_index[t]
        /\ \/ t \notin DOMAIN idf_table
           \/ method = "bm25" /\ d \notin DOMAIN smeta.doclen

\* C9: a search over loaded artifacts that do not fit together fails instead
\* of returning, so no search returns after scoring a candidate with a
\* substituted default.
C9_InconsistentIndexFails ==
    SearchDone => ~UsedDefault

\* C10: a build started with a negative min_doc_tokens or min_token_len
\* fails before it reads a row or creates an artifact.
C10_InvalidConfigFails ==
    InvalidConfig(cfg) =>
        /\ bpc = "failed"
        /\ ~invFile.exists /\ ~idfFile.exists /\ metaFile.state = "missing"

\* the three artifacts as the running search has loaded them
Loaded == [inv |-> inv_index, idf |-> idf_table, meta |-> smeta]

\* what the loaders return on a finished artifact set
LoadedFrom(p) == [inv |-> load_inverted_index(p.inv), idf |-> load_idf_table(p.idf),
                  meta |-> load_meta(p.meta)]

\* C11: a search that has loaded its three artifacts while builds ran beside
\* it holds one complete artifact set: the one a finished build had left
\* before the search started, or one a build finished while it was loading;
\* never a truncated file and never files of two different builds.
C11_LoadsOneCompleteSet ==
    spc \in {"rank", "done"} => \E p \in sSeen : Loaded = LoadedFrom(p)

\* the three files hold exactly the artifact set p
OnDisk(p) ==
    /\ invFile = [exists |-> TRUE, lines |-> p.inv]
    /\ idfFile = [exists |-> TRUE, lines |-> p.idf]
    /\ metaFile = [state |-> "written", obj |-> p.meta]

\* C12: whenever a build has failed, at whatever point, the artifact set the
\* last finished build published is still on disk exactly as it was.
C12_FailedBuildKeepsPublished ==
    (bpc = "failed" /\ published.some) => OnDisk(published)

\* C13: a build whose CSV is missing ends in failure at once, and a build
\* whose CSV cannot be read ends in failure inside the reading loop; in both
\* cases the build has opened none of the three artifacts and the step that
\* fails leaves all three files as they were.
C13_CorpusFailureWritesNothing ==
    [][ /\ (bpc = "idle" /\ bpc' # "idle" /\ ~csv.exists)
            => (bpc' = "failed" /\ wrote' = {} /\ UNCHANGED files)
        /\ (bpc = "loop" /\ bpc' = "failed")
            => (wrote' = {} /\ UNCHANGED files) ]_vars

\* a rebuild died while reading the CSV and the published set is still there
C13_Witness ==
    /\ bpc = "failed"
    /\ rows # <<>>
    /\ wrote = {}
    /\ published.some
    /\ OnDisk(published)

\* no record of the CSV rows rs gets indexed under the arguments c: there is
\* none, or each is skipped by the reader or has too few tokens
EmptyCorpus(rs, c) ==
    LET docs == iter_docs_pages(rs)
    IN \A i \in 1..Len(docs) :
           Len(tokenize(docs[i].text, c.min_token_len)) < c.min_doc_tokens

\* C14: a build from a corpus of which no record gets indexed writes an
\* inverted index and a term table without lines and metadata with N = 0,
\* avgdl = 0 and no lengths; and a search that ran against the artifacts of
\* such a build, whatever its query, mode and K, has not failed and returns
\* the empty list.
C14_EmptyCorpusEmptyIndex ==
    /\ (BuildDone /\ EmptyCorpus(csv.rows, cfg))
           => /\ invFile = [exists |-> TRUE, lines |-> <<>>]
              /\ idfFile = [exists |-> TRUE, lines |-> <<>>]
              /\ metaFile.state = "written"
              /\ metaFile.obj.N = 0
              /\ metaFile.obj.avgdl.n = 0 /\ metaFile.obj.avgdl.d > 0
              /\ DOMAIN metaFile.obj.doclen = {}
              /\ DOMAIN metaFile.obj.meta = {}
    /\ (/\ published.some
        /\ OnDisk(published)
        /\ EmptyCorpus(published.corpus, published.meta)
        /\ spc \in {"done", "failed"})
           => (spc = "done" /\ result = <<>>)

\* a search has ended on the index built from two pages that were both
\* filtered out
C14_Witness ==
    /\ published.some
    /\ OnDisk(published)
    /\ Len(published.corpus) = 2
    /\ \E i \in 1..2 : published.corpus[i].text = <<"!">>
    /\ EmptyCorpus(published.corpus, published.meta)
    /\ published.meta.N = 0
    /\ spc = "done"
    /\ query = <<"a","a">>
    /\ result = <<>>

\* the query terms that have a posting list in the loaded index
KnownTerms(terms, inv) == SelectSeq(terms, LAMBDA t : t \in DOMAIN inv)

\* what search returns for the token list terms when the candidates are
\* visited in the order of the running search
ResultFor(terms) ==
    Truncate(SortDesc(Scored(cand_order, method, terms, inv_index, idf_table, smeta)), topk)

\* C15: a search never fails once its query is tokenized; when the query has
\* no token, or only tokens absent from the index, it ends normally with the
\* empty list; and the candidates, every candidate's score in either mode and
\* the returned list are those of the query with the absent terms removed.
C15_AbsentTermsChangeNothing ==
    /\ spc = "failed" => "tokenize" \notin Range(steps)
    /\ SearchDone =>
          LET known == KnownTerms(q_terms, inv_index)
          IN /\ known = <<>> => result = <<>>
             /\ Range(cand_order) = candidate_docs_SOFT(known, inv_index)
             /\ \A d \in Range(cand_order) : \A m \in Methods :
                    ScoreOf(m, q_terms, d, inv_index, idf_table, smeta)
                        = ScoreOf(m, known, d, inv_index, idf_table, smeta)
             /\ result = ResultFor(known)

\* a search for "aa bb" on an index that has "aa" but not "bb" returned a
\* document
C15_Witness ==
    /\ SearchDone
    /\ q_terms = << <<"a","a">>, <<"b","b">> >>
    /\ <<"a","a">> \in DOMAIN inv_index
    /\ <<"b","b">> \notin DOMAIN inv_index
    /\ result # <<>>

\* a token list with every repetition of a term after its first occurrence
\* removed
RECURSIVE Dedup(_)
Dedup(terms) ==
    IF terms = <<>> THEN <<>>
    ELSE LET init == SubSeq(terms, 1, Len(terms) - 1)
             last == terms[Len(terms)]
         IN IF last \in Range(init) THEN Dedup(init) ELSE Append(Dedup(init), last)

\* C16: the candidates, every candidate's score in either mode and the
\* returned list of a finished search are those of its query terms with the
\* repeated terms removed.
C16_RepeatedTermsChangeNothing ==
    SearchDone =>
        LET uniq == Dedup(q_terms)
        IN /\ Range(cand_order) = candidate_docs_SOFT(uniq, inv_index)
           /\ \A d \in Range(cand_order) : \A m \in Methods :
                  ScoreOf(m, q_terms, d, inv_index, idf_table, smeta)
                      = ScoreOf(m, uniq, d, inv_index, idf_table, smeta)
           /\ result = ResultFor(uniq)

\* a BM25 search for "aa aa" returned a document with a positive score
C16_Witness ==
    /\ SearchDone
    /\ method = "bm25"
    /\ q_terms = << <<"a","a">>, <<"a","a">> >>
    /\ result # <<>>
    /\ result[1][2] > 0

\* C17: every (doc_id, score) pair a finished search returns, in either mode,
\* has a score strictly greater than 0.
C17_ScoresArePositive ==
    SearchDone => \A i \in 1..Len(result) : result[i][2] > 0

\* a search returned one document while another candidate, whose score is 0,
\* was left out although K had room for it
C17_Witness ==
    /\ SearchDone
    /\ Len(result) = 1
    /\ topk = 2
    /\ \E d \in Range(cand_order) :
           /\ ScoreOf(method, q_terms, d, inv_index, idf_table, smeta) <= 0
           /\ d # result[1][1]

\* the sequence s without its j-th element
RemoveAt(s, j) == SubSeq(s, 1, j - 1) \o SubSeq(s, j + 1, Len(s))

\* the documents the reader yields from the CSV
Corpus == iter_docs_pages(csv.rows)

\* document j has the url and the text fingerprint of an earlier document
LaterCopy(docs, j) ==
    \E i \in 1..(j - 1) :
        /\ docs[i].url = docs[j].url
        /\ TextHash(docs[i].text) = TextHash(docs[j].text)

\* C18: when a build has finished, for every document of its corpus that has
\* the url and the text fingerprint of an earlier one, the three artifacts on
\* disk are the ones built from the corpus with that later copy removed:
\* same terms, postings, df and idf values, lengths, N and avgdl.
C18_ExactDuplicateSkipped ==
    BuildDone =>
        \A j \in 1..Len(Corpus) :
            LaterCopy(Corpus, j) => OnDisk(IndexOf(RemoveAt(Corpus, j), cfg))

\* a build has finished on a corpus whose third page repeats the first, with
\* another version of the same page in between, and the page is indexed
C18_Witness ==
    /\ BuildDone
    /\ Len(Corpus) = 3
    /\ LaterCopy(Corpus, 3)
    /\ Corpus[1].text = <<"a","a"," ","b","b">>
    /\ Corpus[2].url = Corpus[1].url
    /\ Corpus[2].text = <<"a","a"," ","a","a">>
    /\ cfg = DefaultConfig
    /\ DiskInv[<<"a","a">>][Corpus[1].doc_id] = 3

\* document d has fewer tokens than min_doc_tokens under the arguments c
BelowThreshold(d, c) == Len(tokenize(d.text, c.min_token_len)) < c.min_doc_tokens

\* C19: when a build has finished, for every document of its corpus with
\* fewer tokens than min_doc_tokens, the three artifacts on disk are the ones
\* built from the corpus without that document; and a page of which every
\* version is below the threshold has no length record, no display metadata
\* and no posting.
C19_ShortRecordContributesNothing ==
    BuildDone =>
        /\ \A j \in 1..Len(Corpus) :
               BelowThreshold(Corpus[j], cfg) => OnDisk(IndexOf(RemoveAt(Corpus, j), cfg))
        /\ \A u \in Urls :
               (\A j \in 1..Len(Corpus) : Corpus[j].url = u => BelowThreshold(Corpus[j], cfg))
                   => /\ _doc_id_from_url(u) \notin DOMAIN metaFile.obj.doclen
                      /\ _doc_id_from_url(u) \notin DOMAIN metaFile.obj.meta
                      /\ \A t \in DOMAIN DiskInv : _doc_id_from_url(u) \notin DOMAIN DiskInv[t]

\* a build with min_doc_tokens = 2 has finished on a corpus with a one-token
\* version and a two-token version of the same page: N = 1 and the length
\* recorded is 2
C19_Witness ==
    /\ BuildDone
    /\ cfg = [min_doc_tokens |-> 2, min_token_len |-> 2]
    /\ Len(Corpus) = 2
    /\ Corpus[1].url = Corpus[2].url
    /\ Corpus[1].text = <<"a","a"," ","b","b">>
    /\ Corpus[2].text = <<"A","a","!","b">>
    /\ metaFile.obj.N = 1
    /\ metaFile.obj.doclen[Corpus[1].doc_id] = 2

IndexLoaded ==
    /\ spc \in {"rank", "done"}
    /\ published.some
    /\ Loaded = LoadedFrom(published)

\* doclen.get(d, 0)
DlOf(mt, d) == IF d \in DOMAIN mt.doclen THEN mt.doclen[d] ELSE 0

\* C21: with the artifacts of a build loaded and avgdl > 0, for a query of
\* one term t, of two documents that have the same tf >= 1 for t the one
\* with the smaller recorded length has the strictly higher bm25 score.
C21_ShorterScoresHigher ==
    (IndexLoaded /\ smeta.avgdl.n > 0) =>
        \A t \in DOMAIN inv_index : \A d1, d2 \in DOMAIN inv_index[t] :
            (/\ inv_index[t][d1] = inv_index[t][d2]
             /\ DlOf(smeta, d1) < DlOf(smeta, d2))
                => bm25_score(<<t>>, d1, inv_index, idf_table, smeta.doclen, smeta.avgdl)
                       > bm25_score(<<t>>, d2, inv_index, idf_table, smeta.doclen, smeta.avgdl)

\* C22: when a build has finished, every line of idf.jsonl has df <= N, so
\* the argument (N - df + 0.5) / (df + 0.5) + 1 = (2N + 2) / (2df + 1) of the
\* BM25 logarithm is at least 1 and the idf_bm25 written is not negative.
C22_Bm25IdfNotNegative ==
    BuildDone =>
        \A i \in 1..Len(idfFile.lines) :
            /\ idfFile.lines[i].df <= metaFile.obj.N
            /\ 2 * metaFile.obj.N + 2 >= 2 * idfFile.lines[i].df + 1
            /\ idfFile.lines[i].idf_bm25 >= 0

\* a build has finished with two documents, a term that is in both of them
\* and a term that is in one
C22_Witness ==
    /\ BuildDone
    /\ metaFile.obj.N = 2
    /\ \E i, j \in 1..Len(idfFile.lines) :
           /\ idfFile.lines[i].df = 2
           /\ idfFile.lines[j].df = 1

\* C23: in the body of the loop of bm25_score, for every tf >= 1, every
\* document length >= 0 and every avgdl, the length is divided by a number
\* that is not zero, which is 1 when avgdl = 0, and the denominator
\* tf + k1 * (1 - b + b * ratio) the term is divided by is greater than zero.
C23_NoDivisionByZero ==
    bm.pc = "done" =>
        /\ bm.divisor.n # 0
        /\ bm.divisor.d # 0
        /\ bm.avgdl.n = 0 => bm.divisor = [n |-> 1, d |-> 1]
        /\ bm.denom > 0

\* a term was scored for a document of length 2 with avgdl = 0
C23_Witness ==
    /\ bm.pc = "done"
    /\ bm.avgdl.n = 0
    /\ bm.dl = 2
    /\ bm.tf = 1
    /\ bm.score > 0

\* the characters a token can be made of
TokenChars == {"a","b","c","d","e","f","g","h","i","j","k","l","m",
               "n","o","p","q","r","s","t","u","v","w","x","y","z",
               "0","1","2","3","4","5","6","7","8","9",
               "%", ".", "/", "-", "+"}

\* the maximal runs <<i, j>> of token characters in the text l
TokenRuns(l) ==
    { r \in (1..Len(l)) \X (1..Len(l)) :
        /\ r[1] <= r[2]
        /\ \A k \in r[1]..r[2] : l[k] \in TokenChars
        /\ r[1] = 1 \/ l[r[1] - 1] \notin TokenChars
        /\ r[2] = Len(l) \/ l[r[2] + 1] \notin TokenChars }

\* " ".join(toks)
RECURSIVE JoinSpace(_)
JoinSpace(toks) ==
    IF toks = <<>> THEN <<>>
    ELSE IF Len(toks) = 1 THEN toks[1]
         ELSE toks[1] \o <<" ">> \o JoinSpace(Tail(toks))

\* the text with A-Z replaced by a-z
LowerCased(text) ==
    [i \in 1..Len(text) |->
        IF text[i] \in DOMAIN UpperToLower THEN UpperToLower[text[i]] ELSE text[i]]

\* C24: for every text and every min_token_len, the list tokenize returns
\* consists of the maximal runs of the characters a-z, 0-9, %, ., /, -, + of
\* the lower-cased text that have at least min_token_len characters, in their
\* order in the text: every token is non-empty, long enough and made of these
\* characters only, every other character separates tokens, and tokenizing
\* the tokens joined by spaces gives the same list again.
C24_TokenizeContract ==
    tk.pc = "done" =>
        LET l == LowerCased(tk.text)
            kept == {r \in TokenRuns(l) : r[2] - r[1] + 1 >= tk.min_token_len}
        IN /\ \A n \in 1..Len(tk.out) :
                  /\ tk.out[n] # <<>>
                  /\ Len(tk.out[n]) >= tk.min_token_len
                  /\ \A k \in 1..Len(tk.out[n]) : tk.out[n][k] \in TokenChars
           /\ Len(tk.out) = Cardinality(kept)
           /\ \A n \in 1..Len(tk.out) :
                  \E r \in kept :
                      /\ tk.out[n] = SubSeq(l, r[1], r[2])
                      /\ Cardinality({q \in kept : q[1] < r[1]}) = n - 1
           /\ tokenize(JoinSpace(tk.out), tk.min_token_len) = tk.out

\* tokenize of "B", tab, "a-" with min_token_len = 1 has returned the tokens
\* "b" and "a-"
C24_Witness ==
    /\ tk.pc = "done"
    /\ tk.text = <<"B", "\t", "a", "-">>
    /\ tk.min_token_len = 1
    /\ tk.out = << <<"b">>, <<"a", "-">> >>

\* the sum of the term frequencies of document d over all terms of inv
PostingSum(inv, d) ==
    SumOver([t \in DOMAIN inv |-> TfOf(inv[t], d)], DOMAIN inv)

\* C25: when a build with the default arguments has finished, the length
\* recorded for every document is the sum of its term frequencies over all
\* terms, and N is the number of records the loop registered.
C25_LengthIsPostingSum ==
    (BuildDone /\ cfg = DefaultConfig) =>
        /\ \A d \in DOMAIN metaFile.obj.doclen :
               metaFile.obj.doclen[d] = PostingSum(DiskInv, d)
        /\ metaFile.obj.N = Len(registered)

\* the query terms of the running search that document d contains
MatchedTerms(d) ==
    {t \in Range(q_terms) : t \in DOMAIN inv_index /\ d \in DOMAIN inv_index[t]}

\* C26: when a tfidf search on the artifacts of a build has finished, every
\* document returned contains a query term with df < N; so when every query
\* term that is in the index is in all N documents, the list returned is
\* empty, however many candidates there were.
C26_TfidfNeedsRareTerm ==
    (SearchDone /\ IndexLoaded /\ method = "tfidf") =>
        /\ \A i \in 1..Len(result) :
               \E t \in MatchedTerms(result[i][1]) : idf_table[t].df < smeta.N
        /\ (\A t \in Range(q_terms) \cap DOMAIN inv_index : idf_table[t].df = smeta.N)
               => result = <<>>

\* a tfidf search for "aa" on an index of two documents that both contain
\* "aa" had two candidates and returned nothing
C26_Witness ==
    /\ SearchDone
    /\ IndexLoaded
    /\ method = "tfidf"
    /\ q_terms = << <<"a","a">> >>
    /\ smeta.N = 2
    /\ Len(cand_order) = 2
    /\ result = <<>>

\* the documents of the loaded index that contain a term of the query
DocsWithQueryTerm ==
    {d \in UNION {DOMAIN inv_index[t] : t \in DOMAIN inv_index} : MatchedTerms(d) # {}}

\* C27: when a bm25 search on the artifacts of a build with
\* min_doc_tokens >= 1 has finished, every document that contains a query
\* term was a candidate and has a score greater than 0, and the list
\* returned has min(K, number of candidates) entries.
C27_Bm25KeepsEveryCandidate ==
    (SearchDone /\ IndexLoaded /\ method = "bm25" /\ published.meta.min_doc_tokens >= 1) =>
        /\ Range(cand_order) = DocsWithQueryTerm
        /\ \A d \in DocsWithQueryTerm :
               bm25_score(q_terms, d, inv_index, idf_table, smeta.doclen, smeta.avgdl) > 0
        /\ Len(result) = Min(topk, Cardinality(DocsWithQueryTerm))

\* a bm25 search with K = 1 on an index of two documents that both contain
\* the query term "aa", one of them once and the other twice, returned one
\* document
C27_Witness ==
    /\ SearchDone
    /\ IndexLoaded
    /\ method = "bm25"
    /\ published.meta.min_doc_tokens >= 1
    /\ q_terms = << <<"a","a">> >>
    /\ Cardinality(DocsWithQueryTerm) = 2
    /\ \E d \in DocsWithQueryTerm : inv_index[<<"a","a">>][d] = 2
    /\ topk = 1
    /\ Len(result) = 1

----------------------------------------------------------------------------
(* properties of the crawler *)

\* C28: over all runs, a URL whose every fetch ended in http-error or
\* exception is fetched at most MAX_RETRIES + 1 times; when it has failed
\* MAX_RETRIES + 1 times it is in the failed list and has no retry count,
\* and no later iteration appends it to the frontier
C28_RetryBound ==
    [][\A u \in CrawlUrls :
          u \notin settled' =>
              /\ fetched'[u] <= MAX_RETRIES + 1
              /\ fetched'[u] = MAX_RETRIES + 1 =>
                    /\ u \in Range(failedFile')
                    /\ u \notin DOMAIN retry_counts'
                    /\ ~(cpc' = "fetch" /\ cur_url' = u)
                    /\ cpc = "fetch" =>
                          u \notin Range(SubSeq(to_visit_q', Len(to_visit_q) + 1,
                                                Len(to_visit_q')))]_vars

\* C29: from no saved state, while a crawl_step runs the frontier holds no
\* URL twice and no visited URL, the helper set is the set of the queued
\* URLs, and no URL whose fetch ended with ok, blocked or skip-nonhtml is
\* fetched again
C29_FrontierInvariant ==
    cpc \in {"loop", "fetch", "done"} =>
        /\ \A i, j \in 1..Len(to_visit_q) : to_visit_q[i] = to_visit_q[j] => i = j
        /\ Range(to_visit_q) \cap visited = {}
        /\ to_visit_set = Range(to_visit_q)
        /\ cpc = "fetch" => cur_url \notin settled

====